---- MODULE Spec2Model ----
(***************************************************************************)
(* Model of the Code Nexus demonstration programs:                         *)
(*   ex1/data_stream.py    - Sensor/Transaction/Event streams, the         *)
(*                           StreamProcessor registry                      *)
(*   ex2/nexus_pipeline.py - Input/Transform/Output stages, the            *)
(*                           ProcessingPipeline and the NexusManager       *)
(* Python text is a sequence of one-character strings, so that substring   *)
(* tests, splitting, lower-casing and number formatting are computed.      *)
(* The degree sign is the single character written "deg".                  *)
(***************************************************************************)
EXTENDS Integers, Sequences, FiniteSets, TLC

VARIABLES stages, p_call, p_data, p_before, p_res,
          s_call, s_kind, s_batch, s_crit, s_res,
          streams, r_call, r_map, r_before, printed, pipelines

pvars == <<stages, p_call, p_data, p_before, p_res>>
svars == <<s_call, s_kind, s_batch, s_crit, s_res>>
rvars == <<streams, r_call, r_map, r_before, printed, pipelines>>
vars == <<pvars, svars, rvars>>

(***************************************************************************)
(* Bounds of the model.                                                    *)
(***************************************************************************)
MaxStages == 3
MaxBatch == 3
MaxStreams == 2

(***************************************************************************)
(* Python text operations.                                                 *)
(***************************************************************************)

\* sub in s
Contains(sub, s) ==
  \E k \in 0..(Len(s) - Len(sub)) : SubSeq(s, k + 1, k + Len(sub)) = sub

\* s.split(sep) for a one-character separator
RECURSIVE SplitFrom(_, _, _, _)
SplitFrom(s, sep, k, field) ==
  IF k > Len(s) THEN <<field>>
  ELSE IF s[k] = sep THEN <<field>> \o SplitFrom(s, sep, k + 1, << >>)
  ELSE SplitFrom(s, sep, k + 1, Append(field, s[k]))

Split(s, sep) == SplitFrom(s, sep, 1, << >>)

UpperCase == <<"A","B","C","D","E","F","G","H","I","J","K","L","M","N","O","P","Q","R","S","T","U","V","W","X","Y","Z">>
LowerCase == <<"a","b","c","d","e","f","g","h","i","j","k","l","m","n","o","p","q","r","s","t","u","v","w","x","y","z">>

LowerChar(c) ==
  IF \E k \in 1..26 : UpperCase[k] = c
  THEN LowerCase[CHOOSE k \in 1..26 : UpperCase[k] = c]
  ELSE c

\* s.lower()
Lower(s) == [k \in 1..Len(s) |-> LowerChar(s[k])]

DigitChars == <<"0","1","2","3","4","5","6","7","8","9">>

RECURSIVE DecNat(_)
DecNat(n) ==
  IF n < 10 THEN <<DigitChars[n + 1]>>
  ELSE DecNat(n \div 10) \o <<DigitChars[(n % 10) + 1]>>

\* str(n) / f"{n}" of an int
Dec(n) == IF n < 0 THEN <<"-">> \o DecNat(0 - n) ELSE DecNat(n)

\* f"{total / count:.1f}" of two ints, count > 0: the quotient rounded to
\* one decimal, ties to even (a tie of a quotient of small ints is a multiple
\* of 1/4, which a float holds exactly), the sign kept on a negative zero
Fmt1f(total, count) ==
  LET a == IF total < 0 THEN 0 - total ELSE total
      q == (10 * a) \div count
      r == (10 * a) % count
      t == IF 2 * r < count THEN q
           ELSE IF 2 * r > count THEN q + 1
           ELSE IF q % 2 = 0 THEN q ELSE q + 1
  IN  (IF total < 0 THEN <<"-">> ELSE << >>)
        \o DecNat(t \div 10) \o <<".">> \o <<DigitChars[(t % 10) + 1]>>

(***************************************************************************)
(* Python values. A scalar is None, an int or a str; a value is a scalar,  *)
(* a list of str or a dict with the keys sensor, value and unit (a missing *)
(* key reads as None through dict.get).                                    *)
(***************************************************************************)
ScNone == [t |-> "none", n |-> 0, s |-> << >>]
ScNum(n) == [t |-> "num", n |-> n, s |-> << >>]
ScStr(s) == [t |-> "str", n |-> 0, s |-> s]
ScDict == [t |-> "dict", n |-> 0, s |-> << >>]

NoDict == [sensor |-> ScNone, value |-> ScNone, unit |-> ScNone]
VNone == [t |-> "none", n |-> 0, s |-> << >>, l |-> << >>, d |-> NoDict]
VNum(n) == [VNone EXCEPT !.t = "num", !.n = n]
VStr(s) == [VNone EXCEPT !.t = "str", !.s = s]
VList(l) == [VNone EXCEPT !.t = "list", !.l = l]
VDict(d) == [VNone EXCEPT !.t = "dict", !.d = d]

\* f"{x}" of a scalar
FmtSc(x) ==
  CASE x.t = "num" -> Dec(x.n)
    [] x.t = "str" -> x.s
    [] OTHER -> <<"N","o","n","e">>

(***************************************************************************)
(* ex2: the stages.                                                        *)
(***************************************************************************)
StageKinds == {"Input", "Transform", "Output"}

\* InputStage.process: narrates, returns its argument
InputStage_process(data) == data

\* TransformStage.process
TransformStage_process(data) ==
  IF data.t = "dict" THEN data
  ELSE IF data.t = "str"
       THEN IF Contains(<<",">>, data.s) THEN VList(Split(data.s, ","))
            ELSE data
  ELSE data

OutputSummary == <<"S","t","r","e","a","m"," ","s","u","m","m","a","r","y",":"," ","5"," ","r","e","a","d","i","n","g","s",","," ","a","v","g",":"," ","2","2",".","1","deg","C">>

\* a variant rendering the length of the list
OutputStage_count_Len(l) == Len(l)

\* the number OutputStage renders for a list
OutputStage_count(l) == Len(l) - 2

\* OutputStage.process
OutputStage_process(data) ==
  IF data.t = "dict"
  THEN VStr(<<"P","r","o","c","e","s","s","e","d"," ","t","e","m","p","e","r","a","t","u","r","e"," ","r","e","a","d","i","n","g",":"," ">> \o FmtSc(data.d.value)
            \o <<"deg">> \o FmtSc(data.d.unit) \o <<" ","(","N","o","r","m","a","l"," ","r","a","n","g","e",")">>)
  ELSE IF data.t = "list"
  THEN VStr(<<"U","s","e","r"," ","a","c","t","i","v","i","t","y"," ","l","o","g","g","e","d",":"," ">> \o Dec(OutputStage_count(data.l))
            \o <<" ","a","c","t","i","o","n","s"," ","p","r","o","c","e","s","s","e","d">>)
  ELSE IF data.t = "str" THEN VStr(OutputSummary)
  ELSE IF data.t = "num" THEN VStr(Dec(data.n))
  ELSE VStr(<<"N","o","n","e">>)

\* stage.process(current_data), dispatched on the stage's class
StageProcess(kind, data) ==
  CASE kind = "Input" -> InputStage_process(data)
    [] kind = "Transform" -> TransformStage_process(data)
    [] kind = "Output" -> OutputStage_process(data)

(***************************************************************************)
(* ex2: ProcessingPipeline.run_pipeline.                                   *)
(***************************************************************************)
FAIL_TEST == <<"F","A","I","L","_","T","E","S","T">>
Recovery == <<"R","e","c","o","v","e","r","y"," ","s","u","c","c","e","s","s","f","u","l",":"," ","P","i","p","e","l","i","n","e"," ","r","e","s","t","o","r","e","d",","," ","p","r","o","c","e","s","s","i","n","g"," ","r","e","s","u","m","e","d">>
FaultIndex == 2

\* a variant comparing with == where the code tests containment
is_fail_test_Equal(current_data) ==
  current_data.t = "str" /\ current_data.s = FAIL_TEST

is_fail_test(current_data) ==
  current_data.t = "str" /\ Contains(FAIL_TEST, current_data.s)

\* the condition of the raise inside the try block
InjectFault(i, current_data) == i = FaultIndex /\ is_fail_test(current_data)

\* the try block of one iteration: an exception, or the stage's result
TryBody(i, kind, current_data) ==
  IF InjectFault(i, current_data)
  THEN [exc |-> TRUE, val |-> VNone]
  ELSE [exc |-> FALSE, val |-> StageProcess(kind, current_data)]

\* one entry of the run's history per iteration of the loop
Entry(i, inp, out, faulted) ==
  [i |-> i, inp |-> inp, out |-> out, faulted |-> faulted]

RECURSIVE RunLoop(_, _, _, _)

\* a variant that resumes with the stage after the failed one
ExceptHandler_Resume(stgs, i, current_data, trace) ==
  RunLoop(stgs, i + 1, current_data, trace)

\* the except clause: the fixed recovery value is returned
ExceptHandler(stgs, i, current_data, trace) ==
  [ret |-> VStr(Recovery), raised |-> FALSE, trace |-> trace]

RunLoop(stgs, i, current_data, trace) ==
  IF i > Len(stgs)
  THEN [ret |-> current_data, raised |-> FALSE, trace |-> trace]
  ELSE LET t == TryBody(i, stgs[i], current_data)
       IN  IF t.exc
           THEN ExceptHandler(stgs, i, current_data,
                              Append(trace, Entry(i, current_data, VNone, TRUE)))
           ELSE RunLoop(stgs, i + 1, t.val,
                        Append(trace, Entry(i, current_data, t.val, FALSE)))

run_pipeline(stgs, data) == RunLoop(stgs, 1, data, << >>)

NoRes == [ret |-> VNone, raised |-> FALSE, trace |-> << >>]

(***************************************************************************)
(* Inputs of the pipeline.                                                 *)
(***************************************************************************)
Prefixes == {<< >>, <<"x">>}
Middles == {FAIL_TEST, <<"F","A","I","L","_","T","E","S">>, <<"u","s","e","r">>, <<"R","e","a","l","-","t","i","m","e">>}
Suffixes == {<< >>, <<",","b">>, <<","," ","a","c","t","i","o","n",","," ","t","i","m","e","s","t","a","m","p">>}
Texts == {p \o m \o q : p \in Prefixes, m \in Middles, q \in Suffixes}

Dicts ==
  { [sensor |-> ScStr(<<"t","e","m","p">>), value |-> ScNum(23), unit |-> ScStr(<<"C">>)],
    [sensor |-> ScStr(<<"t","e","m","p">>), value |-> ScNum(-4), unit |-> ScNone],
    [sensor |-> ScNone, value |-> ScNum(7), unit |-> ScStr(FAIL_TEST)] }

Lists == { << >>, <<<<"a">>>>, <<<<"a">>, <<"b">>, <<"c">>>> }

PipeData ==
  {VStr(s) : s \in Texts} \cup {VDict(d) : d \in Dicts}
    \cup {VList(l) : l \in Lists} \cup {VNum(42), VNone}

(***************************************************************************)
(* ex2: the pipeline's operations.                                         *)
(***************************************************************************)
\* a variant that inserts the stage in front
AddStage_Front(kind) ==
  /\ Len(stages) < MaxStages
  /\ stages' = <<kind>> \o stages
  /\ p_call' = "add_stage"
  /\ p_before' = stages
  /\ p_data' = VNone
  /\ p_res' = NoRes
  /\ UNCHANGED <<svars, rvars>>

\* ProcessingPipeline.add_stage
AddStage(kind) ==
  /\ Len(stages) < MaxStages
  /\ stages' = Append(stages, kind)
  /\ p_call' = "add_stage"
  /\ p_before' = stages
  /\ p_data' = VNone
  /\ p_res' = NoRes
  /\ UNCHANGED <<svars, rvars>>

\* JSONAdapter.process, CSVAdapter.process, StreamAdapter.process:
\* each returns self.run_pipeline(data)
Process(data) ==
  /\ p_call' = "run_pipeline"
  /\ p_data' = data
  /\ p_before' = stages
  /\ p_res' = run_pipeline(stages, data)
  /\ UNCHANGED <<stages, svars, rvars>>

(***************************************************************************)
(* ex1: the streams. A batch argument is a list of items, or (the wrong    *)
(* shape) None or an int; an item is a scalar or a dict.                   *)
(***************************************************************************)
StreamKinds == {"Sensor", "Transaction", "Event"}

BList(items) == [t |-> "list", n |-> 0, items |-> items]
BNone == [t |-> "none", n |-> 0, items |-> << >>]
BNum(n) == [t |-> "num", n |-> n, items |-> << >>]

\* not data_batch
Falsy(b) ==
  \/ b.t = "none"
  \/ b.t = "list" /\ b.items = << >>
  \/ b.t = "num" /\ b.n = 0

\* type(data_batch).__name__ of an argument that is no list
TypeName(b) == IF b.t = "none" THEN <<"N","o","n","e","T","y","p","e">> ELSE <<"i","n","t">>

\* str(e) of the TypeError of iterating, and of len() of, a non-list
NotIterable(b) == <<"'">> \o TypeName(b) \o <<"'"," ","o","b","j","e","c","t"," ","i","s"," ","n","o","t"," ","i","t","e","r","a","b","l","e">>
NoLen(b) == <<"o","b","j","e","c","t"," ","o","f"," ","t","y","p","e"," ","'">> \o TypeName(b) \o <<"'"," ","h","a","s"," ","n","o"," ","l","e","n","(",")">>

\* isinstance(x, (int, float))
IsNumeric(x) == x.t = "num"

\* sum(valid_data)
RECURSIVE SumSeq(_)
SumSeq(q) == IF q = << >> THEN 0 ELSE q[1].n + SumSeq(Tail(q))

\* isinstance(x, str) and "error" in x.lower()
IsErrorText(x) == x.t = "str" /\ Contains(<<"e","r","r","o","r">>, Lower(x.s))

\* what a try block yields: an exception with its message, or a value
Exc(msg) == [exc |-> TRUE, msg |-> msg, val |-> << >>]
Val(val) == [exc |-> FALSE, msg |-> << >>, val |-> val]

\* what a call yields to its caller: a raised exception, or a returned str
\* (val) or list (out)
Returned(val) == [raised |-> FALSE, val |-> val, out |-> BNone]
ReturnedList(b) == [raised |-> FALSE, val |-> << >>, out |-> b]
Raised(msg) == [raised |-> TRUE, val |-> msg, out |-> BNone]

NoData == <<"N","o"," ","d","a","t","a"," ","p","r","o","c","e","s","s","e","d">>
NoValid == <<"N","o"," ","v","a","l","i","d"," ","n","u","m","e","r","i","c"," ","d","a","t","a">>
DivByZero == <<"d","i","v","i","s","i","o","n"," ","b","y"," ","z","e","r","o">>

\* a variant without the guard
SensorNoValid_Missing(count) == FALSE

\* SensorStream.process_batch: if count == 0
SensorNoValid(count) == count = 0

\* SensorStream.process_batch: the try block
Sensor_try(data_batch) ==
  IF Falsy(data_batch) THEN Val(NoData)
  ELSE IF data_batch.t # "list" THEN Exc(NotIterable(data_batch))
  ELSE LET valid_data == SelectSeq(data_batch.items, IsNumeric)
           count == Len(valid_data)
       IN  IF SensorNoValid(count) THEN Val(NoValid)
           ELSE IF count = 0 THEN Exc(DivByZero)
           ELSE Val(<<"S","e","n","s","o","r"," ","d","a","t","a",":"," ">> \o Dec(count)
                    \o <<" ","r","e","a","d","i","n","g","s"," ","p","r","o","c","e","s","s","e","d",","," ","a","v","g"," ","t","e","m","p",":"," ">>
                    \o Fmt1f(SumSeq(valid_data), count) \o <<"deg","C">>)

SensorError == <<"E","r","r","o","r"," ","p","r","o","c","e","s","s","i","n","g"," ","s","e","n","s","o","r"," ","b","a","t","c","h",":"," ">>
TransactionError == <<"E","r","r","o","r"," ","p","r","o","c","e","s","s","i","n","g"," ","t","r","a","n","s","a","c","t","i","o","n"," ","b","a","t","c","h",":"," ">>
EventError == <<"E","r","r","o","r"," ","p","r","o","c","e","s","s","i","n","g"," ","e","v","e","n","t"," ","b","a","t","c","h",":"," ">>

\* a variant that lets the exception through
ExceptClause_Reraise(prefix, r) == Raised(r.msg)

\* except Exception as e: return f"Error processing ... batch: {str(e)}"
ExceptClause(prefix, r) == Returned(prefix \o r.msg)

\* SensorStream.process_batch
SensorStream_process_batch(data_batch) ==
  LET r == Sensor_try(data_batch)
  IN  IF r.exc THEN ExceptClause(SensorError, r) ELSE Returned(r.val)

\* a variant with > where the code has >=
TransactionSign_Strict(net_flow) == IF net_flow > 0 THEN <<"+">> ELSE << >>

\* TransactionStream.process_batch: sign = "+" if net_flow >= 0 else ""
TransactionSign(net_flow) == IF net_flow >= 0 THEN <<"+">> ELSE << >>

\* TransactionStream.process_batch: the try block
Transaction_try(data_batch) ==
  IF data_batch.t # "list" THEN Exc(NotIterable(data_batch))
  ELSE LET valid_data == SelectSeq(data_batch.items, IsNumeric)
           count == Len(valid_data)
           net_flow == SumSeq(valid_data)
       IN  Val(<<"T","r","a","n","s","a","c","t","i","o","n"," ","d","a","t","a",":"," ">> \o Dec(count)
               \o <<" ","o","p","e","r","a","t","i","o","n","s",","," ","n","e","t"," ","f","l","o","w",":"," ">>
               \o TransactionSign(net_flow) \o Dec(net_flow) \o <<" ","u","n","i","t","s">>)

\* TransactionStream.process_batch
TransactionStream_process_batch(data_batch) ==
  LET r == Transaction_try(data_batch)
  IN  IF r.exc THEN ExceptClause(TransactionError, r) ELSE Returned(r.val)

\* EventStream.process_batch: the try block
Event_try(data_batch) ==
  IF data_batch.t # "list" THEN Exc(NoLen(data_batch))
  ELSE LET count == Len(data_batch.items)
           errors == Len(SelectSeq(data_batch.items, IsErrorText))
       IN  Val(<<"E","v","e","n","t"," ","d","a","t","a",":"," ">> \o Dec(count) \o <<" ","e","v","e","n","t","s",","," ">>
               \o Dec(errors) \o <<" ","e","r","r","o","r"," ","d","e","t","e","c","t","e","d">>)

\* EventStream.process_batch
EventStream_process_batch(data_batch) ==
  LET r == Event_try(data_batch)
  IN  IF r.exc THEN ExceptClause(EventError, r) ELSE Returned(r.val)

\* stream.process_batch(data), dispatched on the stream's class
process_batch(kind, data_batch) ==
  CASE kind = "Sensor" -> SensorStream_process_batch(data_batch)
    [] kind = "Transaction" -> TransactionStream_process_batch(data_batch)
    [] kind = "Event" -> EventStream_process_batch(data_batch)

\* criteria: None, or a str
NoCriteria == "<None>"
HighPriority == "High-priority"
Criteria == {NoCriteria, HighPriority, "high-priority"}

\* a variant with >= where the code has >
SensorKeeps_Closed(x) == IsNumeric(x) /\ (x.n >= 50 \/ x.n < 0)

\* SensorStream.filter_data: the condition of the comprehension
SensorKeeps(x) == IsNumeric(x) /\ (x.n > 50 \/ x.n < 0)

\* TransactionStream.filter_data: the condition of the comprehension
TransactionKeeps(x) ==
  IsNumeric(x) /\ (IF x.n < 0 THEN 0 - x.n ELSE x.n) >= 100

\* EventStream.filter_data: the condition of the comprehension
EventKeeps(x) == IsErrorText(x)

Keeps(kind, x) ==
  CASE kind = "Sensor" -> SensorKeeps(x)
    [] kind = "Transaction" -> TransactionKeeps(x)
    [] kind = "Event" -> EventKeeps(x)

\* if criteria == "High-priority"
IsHighPriority(criteria) == criteria = HighPriority

\* SensorStream/TransactionStream/EventStream.filter_data; the comprehension
\* has no handler, so iterating an argument that is no list raises
filter_data(kind, data_batch, criteria) ==
  IF IsHighPriority(criteria)
  THEN IF data_batch.t # "list" THEN Raised(NotIterable(data_batch))
       ELSE ReturnedList(BList(SelectSeq(data_batch.items,
                                          LAMBDA x : Keeps(kind, x))))
  ELSE ReturnedList(data_batch)

(***************************************************************************)
(* Inputs of the streams.                                                  *)
(***************************************************************************)
Items ==
  {ScNum(n) : n \in {-150, -1, 0, 50, 51, 75, 100}}
    \cup {ScStr(<<"E","R","R","O","R">>), ScStr(<<"a","n"," ","e","r","r","o","r">>), ScStr(<<"l","o","g","i","n">>), ScDict}

RECURSIVE SeqsUpTo(_, _)
SeqsUpTo(S, n) ==
  IF n = 0 THEN {<< >>}
  ELSE LET shorter == SeqsUpTo(S, n - 1)
       IN  shorter \cup {Append(q, x) : q \in {r \in shorter : Len(r) = n - 1},
                                        x \in S}

Batches == {BList(q) : q \in SeqsUpTo(Items, MaxBatch)} \cup {BNone, BNum(0), BNum(5)}

NoCall == Returned(<< >>)

(***************************************************************************)
(* ex1: the streams' operations, on a stream of kind s_kind.               *)
(***************************************************************************)
ProcessBatch ==
  /\ s_call = "none"
  /\ s_call' = "process_batch"
  /\ s_res' = process_batch(s_kind, s_batch)
  /\ UNCHANGED <<s_kind, s_batch, s_crit, pvars, rvars>>

FilterData ==
  /\ s_call = "none"
  /\ s_call' = "filter_data"
  /\ s_res' = filter_data(s_kind, s_batch, s_crit)
  /\ UNCHANGED <<s_kind, s_batch, s_crit, pvars, rvars>>

(***************************************************************************)
(* ex1: StreamProcessor; ex2: NexusManager.                                *)
(***************************************************************************)
StreamIds == {"SENSOR_001", "TRANS_001"}
MapIds == StreamIds \cup {"EVENT_404"}
\* the batch sent under each identifier
FullMap ==
  [id \in MapIds |->
     CASE id = "SENSOR_001" -> BList(<<ScNum(50), ScNum(51)>>)
       [] id = "TRANS_001" -> BList(<<ScNum(100), ScNum(-150), ScNum(75)>>)
       [] OTHER -> BList(<<ScStr(<<"l","o","g","i","n">>), ScStr(<<"E","R","R","O","R">>)>>)]
DataMaps == {[id \in D |-> FullMap[id]] : D \in SUBSET MapIds}
EmptyMap == [x \in {} |-> BNone]

Stream(stream_id, kind) == [stream_id |-> stream_id, kind |-> kind]

\* StreamProcessor.add_stream
add_stream(strs, stream) == Append(strs, stream)

\* the streams whose batch process_streams forwards, in the loop's order:
\* if stream.stream_id in data_map
Hits(strs, data_map) ==
  SelectSeq(strs, LAMBDA st : st.stream_id \in DOMAIN data_map)

\* the loop of process_streams: the printed results; a raising
\* process_batch would end the loop and leave process_streams raising
ForwardAll(strs, data_map) ==
  LET hits == Hits(strs, data_map)
      result(st) == process_batch(st.kind, data_map[st.stream_id])
      bad == {k \in DOMAIN hits : result(hits[k]).raised}
      n == IF bad = {} THEN Len(hits)
           ELSE (CHOOSE k \in bad : \A j \in bad : k <= j) - 1
  IN  [raised |-> bad # {},
       lines |-> [k \in 1..n |-> [stream_id |-> hits[k].stream_id,
                                  kind |-> hits[k].kind,
                                  val |-> result(hits[k]).val]]]

\* a variant that looks every identifier of data_map up among the streams
\* and raises on the first that matches none
process_streams_Strict(strs, data_map) ==
  IF \E id \in DOMAIN data_map : \A k \in DOMAIN strs : strs[k].stream_id # id
  THEN [raised |-> TRUE, lines |-> << >>]
  ELSE ForwardAll(strs, data_map)

\* StreamProcessor.process_streams
process_streams(strs, data_map) == ForwardAll(strs, data_map)

NoPrint == [raised |-> FALSE, lines |-> << >>]

AddStream(stream_id, kind) ==
  /\ Len(streams) < MaxStreams
  /\ streams' = add_stream(streams, Stream(stream_id, kind))
  /\ r_call' = "add_stream"
  /\ r_before' = streams
  /\ r_map' = EmptyMap
  /\ printed' = NoPrint
  /\ UNCHANGED <<pipelines, pvars, svars>>

ProcessStreams(data_map) ==
  /\ r_call' = "process_streams"
  /\ r_before' = streams
  /\ r_map' = data_map
  /\ printed' = process_streams(streams, data_map)
  /\ UNCHANGED <<streams, pipelines, pvars, svars>>

\* the pipelines of the program: an object and the pipeline_id it was
\* constructed with
PipeObjs ==
  { [obj |-> "json_pipe", pipeline_id |-> "PIPE_JSON"],
    [obj |-> "csv_pipe", pipeline_id |-> "PIPE_CSV"],
    [obj |-> "json_pipe_2", pipeline_id |-> "PIPE_JSON"] }

\* d[key] = value on a dict held as its sequence of items
SetItem(d, key, value) ==
  IF \E k \in DOMAIN d : d[k].key = key
  THEN [k \in DOMAIN d |-> IF d[k].key = key
                           THEN [key |-> key, value |-> value] ELSE d[k]]
  ELSE Append(d, [key |-> key, value |-> value])

\* NexusManager.register_pipeline
register_pipeline(d, pipeline) == SetItem(d, pipeline.pipeline_id, pipeline.obj)

RegisterPipeline(pipeline) ==
  /\ pipelines' = register_pipeline(pipelines, pipeline)
  /\ r_call' = "register_pipeline"
  /\ r_before' = streams
  /\ r_map' = EmptyMap
  /\ printed' = NoPrint
  /\ UNCHANGED <<streams, pvars, svars>>

IdleOthers ==
  /\ s_call = "none"
  /\ s_res = NoCall
  /\ streams = << >>
  /\ r_call = "none"
  /\ r_map = EmptyMap
  /\ r_before = << >>
  /\ printed = NoPrint
  /\ pipelines = << >>

InitPipe ==
  /\ stages = << >>
  /\ p_call = "none"
  /\ p_data = VNone
  /\ p_before = << >>
  /\ p_res = NoRes

Init ==
  /\ InitPipe
  /\ IdleOthers
  /\ s_kind = "Sensor"
  /\ s_batch = BNone
  /\ s_crit = NoCriteria

\* the stream under test and the arguments of the call on it
InitStream ==
  /\ InitPipe
  /\ IdleOthers
  /\ s_kind \in StreamKinds
  /\ s_batch \in Batches
  /\ s_crit \in Criteria

NextPipeline ==
  \/ \E kind \in StageKinds : AddStage(kind)
  \/ \E data \in PipeData : Process(data)

NextStream == ProcessBatch \/ FilterData

NextRegistry ==
  \/ \E stream_id \in StreamIds, kind \in StreamKinds : AddStream(stream_id, kind)
  \/ \E data_map \in DataMaps : ProcessStreams(data_map)
  \/ \E pipeline \in PipeObjs : RegisterPipeline(pipeline)

SpecPipeline == Init /\ [][NextPipeline]_vars
SpecStream == InitStream /\ [][NextStream]_vars
SpecRegistry == Init /\ [][NextRegistry]_vars

(***************************************************************************)
(* Properties.                                                             *)
(***************************************************************************)
Ran == p_call = "run_pipeline"
Trace == p_res.trace
HasSentinel(data) == data.t = "str" /\ Contains(FAIL_TEST, data.s)

\* C1: when the stage at position i faults, run_pipeline returns exactly
\* the recovery value without raising, no stage at a position after i is
\* executed and stage i is not executed again.
C1_FaultRecovers ==
  Ran =>
    \A k \in DOMAIN Trace :
      Trace[k].faulted =>
        /\ ~p_res.raised
        /\ p_res.ret = VStr(Recovery)
        /\ \A j \in DOMAIN Trace : Trace[j].i >= Trace[k].i => j = k

\* a fault in a pipeline that has a stage after the faulting one
C1_Witness ==
  /\ Ran
  /\ Len(p_before) = 3
  /\ \E k \in DOMAIN Trace : Trace[k].faulted /\ Trace[k].i < Len(p_before)

\* every stage that did not fault was given the data and returned its result
StagesRunNormally ==
  \A k \in DOMAIN Trace :
    ~Trace[k].faulted =>
      Trace[k].out = StageProcess(p_before[Trace[k].i], Trace[k].inp)

\* C2 as stated: the fault is injected at stage index 2 exactly when the
\* data entering stage 2 is the value "FAIL_TEST"; every other input passes.
C2_FaultOnlyOnSentinelValue ==
  Ran =>
    /\ \A k \in DOMAIN Trace :
         Trace[k].faulted <=>
           (Trace[k].i = 2 /\ Trace[k].inp = VStr(FAIL_TEST))
    /\ StagesRunNormally

\* C2 (amended): the fault is injected at stage index 2 exactly when the
\* data entering stage 2 is text that contains "FAIL_TEST"; every other input
\* is passed to the stage's process, and no other index faults.
C2_FaultOnContainedSentinel ==
  Ran =>
    /\ \A k \in DOMAIN Trace :
         Trace[k].faulted <=> (Trace[k].i = 2 /\ HasSentinel(Trace[k].inp))
    /\ StagesRunNormally

\* stage 2 faults on text that contains the sentinel and is longer than it,
\* in a run whose first stage was executed
C2_Witness ==
  /\ Ran
  /\ Len(Trace) = 2
  /\ ~Trace[1].faulted
  /\ Trace[2].faulted
  /\ Trace[2].inp.s # FAIL_TEST

InputTransformOutput == <<"Input", "Transform", "Output">>

\* the three stages ran once each in order, chained, and the last result
\* was returned
ChainedInOrder ==
  /\ Len(Trace) = 3
  /\ ~p_res.raised
  /\ \A k \in 1..3 :
       /\ Trace[k].i = k
       /\ ~Trace[k].faulted
       /\ Trace[k].inp = (IF k = 1 THEN p_data ELSE Trace[k - 1].out)
       /\ Trace[k].out = StageProcess(InputTransformOutput[k], Trace[k].inp)
  /\ p_res.ret = Trace[3].out

\* add_stage appends and run_pipeline leaves the stages alone
AppendOnly ==
  /\ p_call = "add_stage" =>
       /\ Len(stages) = Len(p_before) + 1
       /\ SubSeq(stages, 1, Len(p_before)) = p_before
  /\ Ran => stages = p_before

\* C3 as stated: every item other than the sentinel value "FAIL_TEST" goes
\* through Input, Transform, Output once each in order; add_stage appends.
C3_AnyNonSentinelValueCompletes ==
  /\ (Ran /\ p_before = InputTransformOutput /\ p_data # VStr(FAIL_TEST))
       => ChainedInOrder
  /\ AppendOnly

\* C3 (amended): every item that is not text containing "FAIL_TEST" goes
\* through Input, Transform, Output once each in the order added, each stage
\* receiving the previous stage's output, and the Output stage's result is
\* returned; add_stage only appends.
C3_NonSentinelCompletes ==
  /\ (Ran /\ p_before = InputTransformOutput /\ ~HasSentinel(p_data))
       => ChainedInOrder
  /\ AppendOnly

\* delimited text through the three stages
C3_Witness ==
  /\ Ran
  /\ p_before = InputTransformOutput
  /\ p_data = VStr(<<"u","s","e","r",","," ","a","c","t","i","o","n",","," ","t","i","m","e","s","t","a","m","p">>)
  /\ p_res.ret = VStr(<<"U","s","e","r"," ","a","c","t","i","v","i","t","y"," ","l","o","g","g","e","d",":"," ","1"," ","a","c","t","i","o","n","s"," ","p","r","o","c","e","s","s","e","d">>)

\* the number of separators in a text
Commas(s) == Cardinality({k \in DOMAIN s : s[k] = ","})

\* entry k is the Output stage receiving the list the Transform stage,
\* run just before it, split a delimited text into
OutputAfterSplit(k) ==
  /\ k > 1
  /\ ~Trace[k].faulted
  /\ p_before[k] = "Output"
  /\ p_before[k - 1] = "Transform"
  /\ Trace[k - 1].inp.t = "str"
  /\ Trace[k].inp.t = "list"

\* what the Output stage renders for a record and for other text
OutputOfRecordAndText ==
  \A k \in DOMAIN Trace :
    (~Trace[k].faulted /\ p_before[k] = "Output") =>
      /\ Trace[k].inp.t = "dict" =>
           Trace[k].out = VStr(<<"P","r","o","c","e","s","s","e","d"," ","t","e","m","p","e","r","a","t","u","r","e"," ","r","e","a","d","i","n","g",":"," ">>
                               \o FmtSc(Trace[k].inp.d.value) \o <<"deg">>
                               \o FmtSc(Trace[k].inp.d.unit)
                               \o <<" ","(","N","o","r","m","a","l"," ","r","a","n","g","e",")">>)
      /\ Trace[k].inp.t = "str" => Trace[k].out = VStr(OutputSummary)

\* C4 as stated: for the list the Transform stage split a text into, the
\* Output stage renders the number of fields; for a record its value and
\* unit; for other text the fixed summary.
C4_RendersFieldCount ==
  Ran =>
    /\ \A k \in DOMAIN Trace :
         OutputAfterSplit(k) =>
           /\ Len(Trace[k].inp.l) = Commas(Trace[k - 1].inp.s) + 1
           /\ Trace[k].out = VStr(<<"U","s","e","r"," ","a","c","t","i","v","i","t","y"," ","l","o","g","g","e","d",":"," ">>
                                  \o Dec(Len(Trace[k].inp.l))
                                  \o <<" ","a","c","t","i","o","n","s"," ","p","r","o","c","e","s","s","e","d">>)
    /\ OutputOfRecordAndText

\* C4 (amended): for the list the Transform stage split a text into, the
\* Output stage renders the number of fields minus 2; for a record its value
\* and unit; for other text the fixed summary.
C4_RendersFieldCountLessTwo ==
  Ran =>
    /\ \A k \in DOMAIN Trace :
         OutputAfterSplit(k) =>
           /\ Len(Trace[k].inp.l) = Commas(Trace[k - 1].inp.s) + 1
           /\ Trace[k].out = VStr(<<"U","s","e","r"," ","a","c","t","i","v","i","t","y"," ","l","o","g","g","e","d",":"," ">>
                                  \o Dec(Commas(Trace[k - 1].inp.s) + 1 - 2)
                                  \o <<" ","a","c","t","i","o","n","s"," ","p","r","o","c","e","s","s","e","d">>)
    /\ OutputOfRecordAndText

\* three fields rendered as 1
C4_Witness ==
  /\ Ran
  /\ \E k \in DOMAIN Trace :
       /\ OutputAfterSplit(k)
       /\ Len(Trace[k].inp.l) = 3
       /\ Trace[k].out = VStr(<<"U","s","e","r"," ","a","c","t","i","v","i","t","y"," ","l","o","g","g","e","d",":"," ","1"," ","a","c","t","i","o","n","s"," ","p","r","o","c","e","s","s","e","d">>)

\* the positions of the numeric items of a batch, and their sum
NumericAt(b) == {k \in DOMAIN b.items : b.items[k].t = "num"}

RECURSIVE SumAt(_, _)
SumAt(b, K) ==
  IF K = {} THEN 0
  ELSE LET k == CHOOSE x \in K : TRUE
       IN  b.items[k].n + SumAt(b, K \ {k})

Called(call, kind) == s_call = call /\ s_kind = kind /\ s_batch.t = "list"

\* C5: Sensor.process_batch returns a "no data" result, and divides by
\* nothing, when the batch is empty or has no numeric item; otherwise the
\* count is the number of numeric items and the mean is over exactly those.
C5_SensorMean ==
  Called("process_batch", "Sensor") =>
    LET K == NumericAt(s_batch)
    IN  /\ ~s_res.raised
        /\ s_res.val # SensorError \o DivByZero
        /\ IF K = {}
           THEN s_res.val = (IF s_batch.items = << >> THEN NoData ELSE NoValid)
           ELSE s_res.val = <<"S","e","n","s","o","r"," ","d","a","t","a",":"," ">> \o Dec(Cardinality(K))
                              \o <<" ","r","e","a","d","i","n","g","s"," ","p","r","o","c","e","s","s","e","d",","," ","a","v","g"," ","t","e","m","p",":"," ">>
                              \o Fmt1f(SumAt(s_batch, K), Cardinality(K))
                              \o <<"deg","C">>

\* a batch that is not empty and holds no numeric item
C5_Witness ==
  /\ Called("process_batch", "Sensor")
  /\ s_batch.items # << >>
  /\ NumericAt(s_batch) = {}
  /\ s_res.val = NoValid

\* C6: Transaction.process_batch reports the number of numeric items and
\* their signed sum, with a "+" exactly when the sum is >= 0.
C6_TransactionNetFlow ==
  Called("process_batch", "Transaction") =>
    LET K == NumericAt(s_batch)
        net == SumAt(s_batch, K)
    IN  /\ ~s_res.raised
        /\ s_res.val = <<"T","r","a","n","s","a","c","t","i","o","n"," ","d","a","t","a",":"," ">> \o Dec(Cardinality(K))
                         \o <<" ","o","p","e","r","a","t","i","o","n","s",","," ","n","e","t"," ","f","l","o","w",":"," ">>
                         \o (IF net >= 0 THEN <<"+">> ELSE << >>) \o Dec(net)
                         \o <<" ","u","n","i","t","s">>
        /\ Contains(<<"+">>, s_res.val) <=> net >= 0
        /\ s_batch.items = <<ScNum(100), ScNum(-150), ScNum(75)>> =>
             s_res.val = <<"T","r","a","n","s","a","c","t","i","o","n"," ","d","a","t","a",":"," ","3"," ","o","p","e","r","a","t","i","o","n","s",","," ","n","e","t"," ","f","l","o","w",":"," ","+","2","5"," ","u","n","i","t","s">>

\* the batch [100, -150, 75]
C6_Witness ==
  /\ Called("process_batch", "Transaction")
  /\ s_batch.items = <<ScNum(100), ScNum(-150), ScNum(75)>>
  /\ s_res.val = <<"T","r","a","n","s","a","c","t","i","o","n"," ","d","a","t","a",":"," ","3"," ","o","p","e","r","a","t","i","o","n","s",","," ","n","e","t"," ","f","l","o","w",":"," ","+","2","5"," ","u","n","i","t","s">>

\* the High-priority predicate of each kind of stream
HighPriorityItem(kind, x) ==
  CASE kind = "Sensor" -> x.t = "num" /\ ~(0 <= x.n /\ x.n <= 50)
    [] kind = "Transaction" -> x.t = "num" /\ (x.n >= 100 \/ x.n <= -100)
    [] kind = "Event" ->
         x.t = "str" /\ \E k \in 1..(Len(x.s) - 4) :
                          Lower(SubSeq(x.s, k, k + 4)) = <<"e","r","r","o","r">>

RECURSIVE KeepOnly(_, _)
KeepOnly(kind, q) ==
  IF q = << >> THEN << >>
  ELSE (IF HighPriorityItem(kind, Head(q)) THEN <<Head(q)>> ELSE << >>)
         \o KeepOnly(kind, Tail(q))

\* C7: filter_data returns the batch unchanged unless the criterion is
\* "High-priority", and then exactly the items of the kind's predicate, in
\* their order.
C7_FilterData ==
  s_call = "filter_data" =>
    /\ s_crit # "High-priority" => s_res = ReturnedList(s_batch)
    /\ (s_crit = "High-priority" /\ s_batch.t = "list") =>
         s_res = ReturnedList(BList(KeepOnly(s_kind, s_batch.items)))

\* a Sensor batch with both ends of the interval and items outside it
C7_Witness ==
  /\ Called("filter_data", "Sensor")
  /\ s_crit = "High-priority"
  /\ s_batch.items = <<ScNum(0), ScNum(51), ScNum(50)>>
  /\ s_res.out.items = <<ScNum(51)>>

\* the streams registered under an identifier
Registered(id) == {k \in DOMAIN streams : streams[k].stream_id = id}

\* C8: a batch under an identifier that matches no stream is skipped:
\* no result for it, no fault, the streams unchanged, and every batch whose
\* identifier matches a stream is still forwarded to it.
C8_UnknownIdSkipped ==
  r_call = "process_streams" =>
    LET hit == {k \in DOMAIN streams : streams[k].stream_id \in DOMAIN r_map}
        rank(k) == Cardinality({j \in hit : j <= k})
    IN  /\ ~printed.raised
        /\ streams = r_before
        /\ \A n \in DOMAIN printed.lines :
             Registered(printed.lines[n].stream_id) # {}
        /\ Len(printed.lines) = Cardinality(hit)
        /\ \A k \in hit :
             printed.lines[rank(k)] =
               [stream_id |-> streams[k].stream_id,
                kind |-> streams[k].kind,
                val |-> process_batch(streams[k].kind,
                                      r_map[streams[k].stream_id]).val]

\* a map with an unknown identifier and one that matches a stream
C8_Witness ==
  /\ r_call = "process_streams"
  /\ \E id \in DOMAIN r_map : Registered(id) = {}
  /\ \E id \in DOMAIN r_map : Registered(id) # {}
  /\ printed.lines # << >>

\* C9: at most one component is held per identifier, by the StreamProcessor
\* and by the NexusManager, and a batch sent under an identifier is
\* forwarded to exactly one component.
C9_UniqueIdentifiers ==
  /\ \A id \in StreamIds : Cardinality(Registered(id)) <= 1
  /\ \A a, b \in DOMAIN pipelines :
       pipelines[a].key = pipelines[b].key => a = b
  /\ r_call = "process_streams" =>
       \A id \in DOMAIN r_map :
         Cardinality({n \in DOMAIN printed.lines :
                        printed.lines[n].stream_id = id}) <= 1

\* the batch makes the try block of process_batch raise
WrongShape ==
  s_batch.t # "list" /\ (s_kind = "Sensor" => ~Falsy(s_batch))

ErrorPrefix ==
  CASE s_kind = "Sensor" -> SensorError
    [] s_kind = "Transaction" -> TransactionError
    [] s_kind = "Event" -> EventError

StartsWith(s, prefix) ==
  Len(s) >= Len(prefix) /\ SubSeq(s, 1, Len(prefix)) = prefix

\* C10: process_batch of every kind returns a string for every argument, an
\* internal error becoming the descriptive error string; no operation of a
\* stream raises on a batch.
C10_NoFaultPropagates ==
  /\ s_call = "process_batch" =>
       /\ ~s_res.raised
       /\ WrongShape <=> StartsWith(s_res.val, ErrorPrefix)
  /\ (s_call = "filter_data" /\ s_batch.t = "list") => ~s_res.raised

\* an Event stream given None
C10_Witness ==
  /\ s_call = "process_batch"
  /\ s_kind = "Event"
  /\ s_batch = BNone
  /\ s_res = Returned(EventError \o <<"o","b","j","e","c","t"," ","o","f"," ","t","y","p","e"," ","'","N","o","n","e","T","y","p","e","'"," ","h","a","s"," ","n","o"," ","l","e","n","(",")">>)

====
